---- MODULE Spec2Model ----
(***************************************************************************)
(* A model of the SIVACOR command-line client (src/src/sivacor).  Every    *)
(* CLI invocation is a fresh process: a specification below is one         *)
(* command, its Init draws the command line, and the remote service's      *)
(* answers are drawn when the request that reads them is issued.           *)
(*                                                                         *)
(*   argv      the command and its options (typer parameters)              *)
(*   pc        the handler's position                                      *)
(*   local     the handler's local variables                               *)
(*   requests  the remote requests issued so far, in order                 *)
(*   out       what was printed so far, in order                           *)
(*   exit      how the process ended: code -1 while it runs                *)
(***************************************************************************)
EXTENDS Integers, Sequences, FiniteSets, TLC

VARIABLES argv, pc, local, requests, out, exit

vars == <<argv, pc, local, requests, out, exit>>

\* The process is still running.
Running == [code |-> -1, why |-> "running"]

\* typer.Abort(), typer.Exit(code=1), sys.exit(1) and an uncaught exception
\* all end the process with status 1; a handler that returns ends it with 0.
Exited(code, why) == [code |-> code, why |-> why]

\* Sequences over S of length at most n.
SeqUpTo(S, n) == UNION {[1..k -> S] : k \in 0..n}

\* Sequences over S without repetition, of length at most n.
DistinctSeqUpTo(S, n) ==
    {q \in SeqUpTo(S, n) : \A i, j \in 1..Len(q) : q[i] = q[j] => i = j}

(***************************************************************************)
(* User lookup: lib.py _search_user                                        *)
(***************************************************************************)

\* Longest result list the user search returns in the model.
MaxUsers == 3

\* The remote store's users.  The store keeps logins unique; a search by
\* text also matches names and e-mail, so a hit's login need not be the text.
UserDir ==
    { [_id |-> "u1", login |-> "al",    name |-> "Al Alice"],
      [_id |-> "u2", login |-> "alice", name |-> "Alice Al"],
      [_id |-> "u3", login |-> "bob",   name |-> "Bob Alice"],
      [_id |-> "u4", login |-> "carol", name |-> "Carol Bob"] }

\* Search texts typed by the operator (non-empty: `if user:` guards the call).
SearchTexts == {"al", "alice", "bob", "zed"}

\* What GET /user?text= may answer: distinct users of the store, in any order.
UserResults == DistinctSeqUpTo(UserDir, MaxUsers)

\* next((_ for _ in users if _.get("login") == user), None): the matches, first
\* first; the empty sequence stands for None.
FirstWithLogin(users, user) ==
    LET hits == SelectSeq(users, LAMBDA x : x.login = user)
    IN  IF hits = <<>> THEN <<>> ELSE <<hits[1]>>

\* The "Found multiple users:" listing, one line per candidate, in list order.
CandidateLines(users) ==
    [i \in 1..Len(users) |-> <<"candidate", users[i].name, users[i].login>>]

\* A plausible slip: with several hits, take the first hit instead of the one
\* whose login is the text.
_search_user_takes_first(users, user) ==
    IF users = <<>>
    THEN [abort |-> TRUE, u |-> <<>>,
          echo |-> <<<<"Searching for user with text", user>>,
                     <<"No user found", user>>>>]
    ELSE [abort |-> FALSE, u |-> <<users[1]>>,
          echo |-> <<<<"Searching for user with text", user>>,
                     <<"Found user", users[1].name, users[1].login>>>>]

\* _search_user(gc, user) on the answer `users` of GET /user?text=user:
\* whether it aborts, the user returned (a sequence of one, empty on abort)
\* and the lines echoed.
_search_user(users, user) ==
    LET searching == <<"Searching for user with text", user>>
    IN  IF users = <<>>
        THEN [abort |-> TRUE, u |-> <<>>,
              echo |-> <<searching, <<"No user found", user>>>>]
        ELSE IF Len(users) > 1
        THEN LET u == FirstWithLogin(users, user)
             IN  IF u = <<>>
                 THEN [abort |-> TRUE, u |-> <<>>,
                       echo |-> <<searching, <<"Found multiple users:">>>>
                                \o CandidateLines(users)
                                \o <<<<"Trying to search for user by their specific login name.">>>>]
                 ELSE [abort |-> FALSE, u |-> u,
                       echo |-> <<searching,
                                  <<"Found user", u[1].name, u[1].login>>>>]
        ELSE [abort |-> FALSE, u |-> <<users[1]>>,
              echo |-> <<searching,
                         <<"Found user", users[1].name, users[1].login>>>>]

\* A process that only resolves a user: the text is on the command line.
InitUser ==
    /\ argv \in [cmd : {"search user"}, user : SearchTexts]
    /\ pc = "search"
    /\ local = [users |-> <<>>, u |-> <<>>]
    /\ requests = <<>>
    /\ out = <<>>
    /\ exit = Running

\* One call of _search_user: the request, the answer, the outcome.
SearchUser ==
    /\ argv.cmd = "search user"
    /\ pc = "search"
    /\ \E users \in UserResults :
         LET r == _search_user(users, argv.user)
         IN  /\ local' = [users |-> users, u |-> r.u]
             /\ out' = out \o r.echo
             /\ exit' = IF r.abort THEN Exited(1, "Abort") ELSE Exited(0, "return")
    /\ requests' = Append(requests, <<"GET", "/user", "text", argv.user>>)
    /\ pc' = "done"
    /\ UNCHANGED argv

NextUser == SearchUser

SpecUser == InitUser /\ [][NextUser]_vars

\* C1: the user lookup aborts on an empty answer, returns the only element of
\* a one-element answer whatever its login, and on a longer answer returns
\* the element whose login is the text when exactly one exists and otherwise
\* aborts after listing every candidate; what it returns is in the answer.
C1_SearchUserContract ==
    (argv.cmd = "search user" /\ pc = "done") =>
        LET users == local.users
            listed == SelectSeq(out, LAMBDA m : m[1] = "candidate")
            LoginHits == {i \in 1..Len(users) : users[i].login = argv.user}
        IN  /\ users = <<>> => (exit.code = 1 /\ local.u = <<>>)
            /\ Len(users) = 1 => (exit.code = 0 /\ local.u = <<users[1]>>)
            /\ (Len(users) > 1 /\ Cardinality(LoginHits) = 1) =>
                   /\ exit.code = 0
                   /\ \E i \in LoginHits : local.u = <<users[i]>>
            /\ (Len(users) > 1 /\ Cardinality(LoginHits) # 1) =>
                   /\ exit.code = 1
                   /\ local.u = <<>>
                   /\ Len(listed) = Len(users)
                   /\ \A i \in 1..Len(users) : listed[i][3] = users[i].login
            /\ \A i \in 1..Len(local.u) :
                   \E j \in 1..Len(users) : users[j] = local.u[i]

\* C1's case: several hits, the exact login is not the first of them, and it
\* is the one returned.
C1_Witness ==
    /\ argv.cmd = "search user" /\ pc = "done"
    /\ Len(local.users) > 1
    /\ local.users[1].login # argv.user
    /\ Len(local.u) = 1 /\ local.u[1].login = argv.user

(***************************************************************************)
(* Elapsed time: submission.py duration                                    *)
(***************************************************************************)

\* Largest number of whole days between the two timestamps drawn.
MaxDays == 2

SecondsPerDay == 86400
SecondsPerHour == 3600
SecondsPerMinute == 60
MicrosPerSecond == 1000000

\* A datetime is an instant: whole seconds and microseconds, 0 <= us < 10^6.
DateTime(s, us) ==
    [s |-> s + (us \div MicrosPerSecond), us |-> us % MicrosPerSecond]

\* a < b on datetimes.
Earlier(a, b) == a.s < b.s \/ (a.s = b.s /\ a.us < b.us)

\* end - start as Python's timedelta: days (negative when end < start),
\* 0 <= seconds < 86400, 0 <= microseconds < 10^6.
TimeDelta(start, end) ==
    LET borrow == IF end.us < start.us THEN 1 ELSE 0
        secs   == end.s - start.s - borrow
    IN  [days         |-> secs \div SecondsPerDay,
         seconds      |-> secs % SecondsPerDay,
         microseconds |-> end.us - start.us + borrow * MicrosPerSecond]

\* " ".join(parts)
RECURSIVE JoinSpace(_)
JoinSpace(parts) ==
    IF parts = <<>> THEN ""
    ELSE IF Len(parts) = 1 THEN parts[1]
    ELSE parts[1] \o " " \o JoinSpace(Tail(parts))

\* A plausible slip: the seconds are appended whenever they are non-zero and
\* never otherwise, so an empty duration renders as the empty string.
duration_no_zero_case(start, end) ==
    LET delta   == TimeDelta(start, end)
        hours   == delta.seconds \div SecondsPerHour
        minutes == (delta.seconds % SecondsPerHour) \div SecondsPerMinute
        seconds == delta.seconds % SecondsPerMinute
        p1 == IF delta.days > 0 THEN <<ToString(delta.days) \o "d">> ELSE <<>>
        p2 == IF hours > 0 THEN Append(p1, ToString(hours) \o "h") ELSE p1
        p3 == IF minutes > 0 THEN Append(p2, ToString(minutes) \o "m") ELSE p2
        p4 == IF seconds > 0 THEN Append(p3, ToString(seconds) \o "s") ELSE p3
    IN  JoinSpace(p4)

\* duration(start, end): the parts list grows unit by unit.
duration(start, end) ==
    LET delta   == TimeDelta(start, end)
        hours   == delta.seconds \div SecondsPerHour
        minutes == (delta.seconds % SecondsPerHour) \div SecondsPerMinute
        seconds == delta.seconds % SecondsPerMinute
        p1 == IF delta.days > 0 THEN <<ToString(delta.days) \o "d">> ELSE <<>>
        p2 == IF hours > 0 THEN Append(p1, ToString(hours) \o "h") ELSE p1
        p3 == IF minutes > 0 THEN Append(p2, ToString(minutes) \o "m") ELSE p2
        p4 == IF seconds > 0 \/ p3 = <<>>
              THEN Append(p3, ToString(seconds) \o "s") ELSE p3
    IN  JoinSpace(p4)

\* The differences drawn: d days, h hours, m minutes, s seconds and a
\* fraction of a second, taken forwards (end >= start) or backwards.
DurationDays == 0..MaxDays
DurationHours == {0, 1, 23}
DurationMinutes == {0, 5, 59}
DurationSeconds == {0, 45, 59}
DurationMicros == {0, 500000}
DurationStarts == {DateTime(0, 0), DateTime(86399, 500000)}

\* start shifted by the difference x, forwards or backwards.
Shifted(start, x, forwards) ==
    LET secs == ((x.d * 24 + x.h) * 60 + x.m) * 60 + x.s
    IN  IF forwards
        THEN DateTime(start.s + secs, start.us + x.us)
        ELSE DateTime(start.s - secs - 1, start.us + MicrosPerSecond - x.us)

InitDuration ==
    /\ \E start \in DurationStarts, forwards \in BOOLEAN,
          x \in [d : DurationDays, h : DurationHours, m : DurationMinutes,
                 s : DurationSeconds, us : DurationMicros] :
         /\ argv = [cmd |-> "duration", start |-> start,
                    end |-> Shifted(start, x, forwards)]
         /\ local = [diff |-> x, forwards |-> forwards, result |-> ""]
    /\ pc = "call"
    /\ requests = <<>>
    /\ out = <<>>
    /\ exit = Running

\* One call of duration(start, end).
ApplyDuration ==
    /\ argv.cmd = "duration"
    /\ pc = "call"
    /\ local' = [local EXCEPT !.result = duration(argv.start, argv.end)]
    /\ pc' = "done"
    /\ exit' = Exited(0, "return")
    /\ UNCHANGED <<argv, requests, out>>

NextDuration == ApplyDuration

SpecDuration == InitDuration /\ [][NextDuration]_vars

\* C7: for end >= start with a difference of d days, h hours, m minutes and
\* s seconds, duration renders the non-zero units as <d>d <h>h <m>m <s>s, in
\* that order and joined by spaces, and renders 0s when all four are zero.
C7_DurationUnits ==
    (argv.cmd = "duration" /\ pc = "done" /\ ~Earlier(argv.end, argv.start)) =>
        LET x     == local.diff
            shown == SelectSeq(<<<<x.d, "d">>, <<x.h, "h">>, <<x.m, "m">>, <<x.s, "s">>>>,
                               LAMBDA unit : unit[1] # 0)
        IN  /\ shown = <<>> => local.result = "0s"
            /\ shown # <<>> =>
                 local.result =
                   JoinSpace([i \in 1..Len(shown) |->
                                ToString(shown[i][1]) \o shown[i][2]])
            /\ (x.d = 0 /\ x.h = 0 /\ x.m = 0 /\ x.s = 45) => local.result = "45s"
            /\ (x.d = 1 /\ x.h = 0 /\ x.m = 5 /\ x.s = 0) => local.result = "1d 5m"

\* C7's case: 1 day 0 hours 5 minutes 0 seconds, rendered without the hours
\* and the seconds.
C7_Witness ==
    /\ argv.cmd = "duration" /\ pc = "done"
    /\ ~Earlier(argv.end, argv.start)
    /\ local.diff.d = 1 /\ local.diff.h = 0 /\ local.diff.m = 5 /\ local.diff.s = 0
    /\ local.result = "1d 5m"

(***************************************************************************)
(* Human-readable sizes: submission.py convert_size                        *)
(***************************************************************************)

\* Longest size drawn, in base-1024 digits: 7 digits reach 1024^6 and beyond.
MaxDigits == 7

\* base (binary=True)
Base == 1024

\* size_name, for binary=True
SizeNames == <<"B", "KiB", "MiB", "GiB", "TiB", "PiB">>

\* A size is an integer written in base 1024, most significant digit first
\* and non-zero, with a sign; no digits is zero.  (The sizes that matter
\* here go beyond 2^31.)
Size(neg, digits) == [neg |-> neg, digits |-> digits]

\* size_bytes <= 0
NotPositive(size) == size.neg \/ size.digits = <<>>

\* How far the digits fall short of the next power of 1024, less one:
\* Base^Len - 1 - size, capped at cap.
RECURSIVE Shortfall(_, _, _)
Shortfall(digits, acc, cap) ==
    IF digits = <<>> THEN acc
    ELSE LET a == acc * Base + (Base - 1 - digits[1])
         IN  IF a >= cap THEN cap ELSE Shortfall(Tail(digits), a, cap)

\* math.log(size_bytes, base) is a quotient of two doubles.  It is exact at
\* the powers of 1024 up to 1024^6, and it rounds up to the next whole
\* number for the sizes just below 1024^5 (the last 3) and just below 1024^6
\* (the last 6208): IEEE-754 doubles, as CPython evaluates line 60.
LogRoundsUpBelowPiB == 3
LogRoundsUpBelowEiB == 6208
LogRoundsUp(size) ==
    LET n == Len(size.digits)
    IN  \/ n = 5 /\ Shortfall(size.digits, 0, LogRoundsUpBelowPiB) < LogRoundsUpBelowPiB
        \/ n = 6 /\ Shortfall(size.digits, 0, LogRoundsUpBelowEiB) < LogRoundsUpBelowEiB

\* i = int(math.floor(math.log(size_bytes, base))), for size_bytes > 0
LogIndex(size) ==
    IF LogRoundsUp(size) THEN Len(size.digits) ELSE Len(size.digits) - 1

\* s = round(size_bytes / math.pow(base, i), 2), in hundredths: the digit at
\* 1024^i is the whole part, the two digits after it decide the hundredths
\* and the rest only break a tie (round half to even).
Hundredths(size, i) ==
    LET n     == Len(size.digits)
        at(k) == LET j == n - k IN IF j >= 1 /\ j <= n THEN size.digits[j] ELSE 0
        whole == at(i)
        num   == 100 * (at(i - 1) * Base + at(i - 2))
        den   == Base * Base
        q     == num \div den
        r     == num % den
        rest  == \E j \in 1..n : (n - j) < i - 2 /\ size.digits[j] # 0
        up    == 2 * r > den \/ (2 * r = den /\ (rest \/ q % 2 = 1))
    IN  100 * whole + q + (IF up THEN 1 ELSE 0)

\* "%s" of a float with at most two decimals: 1.0, 1.4, 1.43, 1.05
FloatStr(h) ==
    LET whole == h \div 100
        frac  == h % 100
    IN  ToString(whole) \o "." \o
        (IF frac % 10 = 0 THEN ToString(frac \div 10)
         ELSE IF frac < 10 THEN "0" \o ToString(frac)
         ELSE ToString(frac))

\* convert_size(size_bytes): the text returned, or the exception raised by
\* size_name[i] when the tuple has no element i.
convert_size(size) ==
    IF NotPositive(size)
    THEN [raises |-> "", i |-> 0, s |-> 0, text |-> "0B"]
    ELSE LET i == LogIndex(size)
             s == Hundredths(size, i)
         IN  IF i + 1 > Len(SizeNames)
             THEN [raises |-> "IndexError", i |-> i, s |-> s, text |-> ""]
             ELSE [raises |-> "", i |-> i, s |-> s,
                   text |-> FloatStr(s) \o " " \o SizeNames[i + 1]]

\* Digits drawn; 1500000 = <<1, 440, 864>> and 1.125 KiB = <<1, 128>> are
\* added as written.
SampleDigits == {0, 1, 512, 1023}
SampleSizes ==
    LET nat == {d \in SeqUpTo(SampleDigits, MaxDigits) : d = <<>> \/ d[1] # 0}
              \cup {<<1, 440, 864>>, <<1, 128>>, <<1, 128, 1>>,
                    <<1023, 1023, 1023, 1023, 1020>>,
                    <<1023, 1023, 1023, 1023, 1017, 959>>}
    IN  {Size(FALSE, d) : d \in nat}
        \cup {Size(TRUE, d) : d \in {<<1>>, <<1023, 0>>}}

InitSize ==
    /\ argv \in [cmd : {"convert_size"}, size_bytes : SampleSizes]
    /\ local = [raises |-> "", i |-> 0, s |-> 0, text |-> ""]
    /\ pc = "call"
    /\ requests = <<>>
    /\ out = <<>>
    /\ exit = Running

\* One call of convert_size(size_bytes).
ApplyConvertSize ==
    /\ argv.cmd = "convert_size"
    /\ pc = "call"
    /\ local' = convert_size(argv.size_bytes)
    /\ pc' = "done"
    /\ exit' = IF local'.raises = "" THEN Exited(0, "return")
               ELSE Exited(1, local'.raises)
    /\ UNCHANGED <<argv, requests, out>>

NextSize == ApplyConvertSize

SpecSize == InitSize /\ [][NextSize]_vars

\* C8: a size <= 0 renders 0B; a size > 0 renders with the unit at index
\* floor(log_1024(size)) of B..PiB and the value size / 1024^index, which
\* lies in [1, 1024): the conversion never fails for lack of a unit.
C8_ConvertSizeTotal ==
    (argv.cmd = "convert_size" /\ pc = "done") =>
        LET size == argv.size_bytes
            n    == Len(size.digits)
        IN  IF NotPositive(size)
            THEN local.raises = "" /\ local.text = "0B"
            ELSE /\ local.raises = ""
                 /\ local.i = n - 1
                 /\ n <= Len(SizeNames)
                 /\ local.s >= 100 /\ local.s <= 100 * Base

(***************************************************************************)
(* job list: job.py list_jobs, status_code_to_str                          *)
(***************************************************************************)

\* Longest job listing the remote service answers in the model.
MaxJobs == 2

SivacorSubmission == "sivacor_submission"

\* status_code_to_str(code)
status_code_to_str(code) ==
    CASE code = 0 -> "Inactive"
      [] code = 1 -> "Queued"
      [] code = 2 -> "Running"
      [] code = 3 -> "Completed"
      [] code = 4 -> "Failed"
      [] code = 5 -> "Canceled"
      [] OTHER    -> "Unknown"

\* The remote service's jobs; created is the instant the job was created.
JobStore ==
    { [_id |-> "j1", title |-> "run 1", type |-> SivacorSubmission,
       status |-> 3, created |-> DateTime(600, 0)],
      [_id |-> "j2", title |-> "run 2", type |-> SivacorSubmission,
       status |-> 4, created |-> DateTime(1200, 500000)],
      [_id |-> "j3", title |-> "run 3", type |-> SivacorSubmission,
       status |-> 4, created |-> DateTime(1800, 0)],
      [_id |-> "j4", title |-> "other", type |-> "celery",
       status |-> 7, created |-> DateTime(2400, 0)] }

\* --since values, as instants in the operator's timezone; none is <<>>.
SinceOptions == {<<>>, <<DateTime(1200, 700000)>>, <<DateTime(1800, 1)>>}

\* since.replace(tzinfo=local_tz, microsecond=0)
LocalizeSince(since) ==
    [i \in 1..Len(since) |-> DateTime(since[i].s, 0)]

\* params of GET job/all: a filter is sent only when it is non-empty.
JobParams(status, types) ==
    [statuses |-> status, types |-> types]

\* GET job/all: jobs of the store that pass the filters sent, in any order.
JobAnswers(params) ==
    {q \in DistinctSeqUpTo(JobStore, MaxJobs) :
        \A i \in 1..Len(q) :
            /\ params.statuses # <<>> =>
                   \E k \in 1..Len(params.statuses) : params.statuses[k] = q[i].status
            /\ params.types # <<>> =>
                   \E k \in 1..Len(params.types) : params.types[k] = q[i].type}

\* `if since and created < since: continue`
SkippedBySince(created, since) ==
    since # <<>> /\ Earlier(created, since[1])

\* The rows table.add_row adds, job by job.
RECURSIVE JobRows(_, _)
JobRows(jobs, since) ==
    IF jobs = <<>> THEN <<>>
    ELSE LET job == jobs[1]
         IN  IF SkippedBySince(job.created, since)
             THEN JobRows(Tail(jobs), since)
             ELSE <<[_id |-> job._id, title |-> job.title,
                     status |-> status_code_to_str(job.status),
                     created |-> job.created.s \div SecondsPerMinute]>>
                  \o JobRows(Tail(jobs), since)

InitJobs ==
    /\ argv \in [cmd : {"job list"},
                 status : {<<>>, <<4>>},
                 types : {<<>>, <<SivacorSubmission>>},
                 json : BOOLEAN,
                 since : SinceOptions]
    /\ pc = "list"
    /\ local = [since |-> <<>>, jobs |-> <<>>, table |-> <<>>]
    /\ requests = <<>>
    /\ out = <<>>
    /\ exit = Running

\* list_jobs, from the request to the print.
ListJobs ==
    /\ argv.cmd = "job list"
    /\ pc = "list"
    /\ LET params == JobParams(argv.status, argv.types)
           since  == LocalizeSince(argv.since)
       IN  /\ requests' = Append(requests, <<"GET", "job/all", params>>)
           /\ \E jobs \in JobAnswers(params) :
                LET table == JobRows(jobs, since)
                IN  /\ local' = [since |-> since, jobs |-> jobs, table |-> table]
                    /\ out' = IF argv.json
                              THEN Append(out, <<"json", jobs>>)
                              ELSE Append(out, <<"table", table>>)
    /\ pc' = "done"
    /\ exit' = Exited(0, "return")
    /\ UNCHANGED argv

NextJobs == ListJobs

SpecJobs == InitJobs /\ [][NextJobs]_vars

\* C5: with --since set, job list emits no job created before `since` in
\* either output mode, and the jobs of the JSON dump are the jobs that get a
\* table row.
C5_SinceFiltersBothModes ==
    (argv.cmd = "job list" /\ pc = "done" /\ argv.since # <<>>) =>
        LET emitted == IF argv.json THEN out[1][2] ELSE local.table
        IN  /\ \A i \in 1..Len(emitted) :
                   \E k \in 1..Len(local.jobs) :
                       /\ local.jobs[k]._id = emitted[i]._id
                       /\ ~Earlier(local.jobs[k].created, local.since[1])
            /\ {emitted[i]._id : i \in 1..Len(emitted)}
                   = {local.table[i]._id : i \in 1..Len(local.table)}

(***************************************************************************)
(* job stream: job.py connect_to_job_stream, stream_current_job            *)
(***************************************************************************)

\* Most frames the peer sends before the stream ends in the model.
MaxFrames == 4

\* What websocket.recv() may return: a text frame, a binary frame that
\* decodes as UTF-8, a binary frame that does not.
Frames ==
    { [data |-> "line a", bytes |-> FALSE, utf8 |-> TRUE],
      [data |-> "line b", bytes |-> TRUE,  utf8 |-> TRUE],
      [data |-> "\\xff",  bytes |-> TRUE,  utf8 |-> FALSE] }

\* The `finally:` banner of connect_to_job_stream.
Banner == <<<<"====">>, <<"WebSocket client debugger stopped.">>>>

InitStream ==
    /\ argv = [cmd |-> "job stream"]
    /\ pc = "connect"
    /\ local = [received |-> <<>>]
    /\ requests = <<>>
    /\ out = <<>>
    /\ exit = Running

\* websockets.connect succeeds: the subscription banner, then the loop.
ConnectOk ==
    /\ argv.cmd = "job stream" /\ pc = "connect"
    /\ requests' = Append(requests, <<"WS", "/logs/docker">>)
    /\ out' = out \o <<<<"Attempting to connect">>,
                       <<"Connection successful">>, <<"====">>>>
    /\ pc' = "recv"
    /\ UNCHANGED <<argv, local, exit>>

\* websockets.connect raises: ConnectionRefusedError, or any other Exception
\* (bad handshake, timeout); both print and sys.exit(1), then the banner.
ConnectFails ==
    /\ argv.cmd = "job stream" /\ pc = "connect"
    /\ requests' = Append(requests, <<"WS", "/logs/docker">>)
    /\ \E e \in {"ConnectionRefusedError", "Exception"} :
         /\ out' = out \o <<<<"Attempting to connect">>,
                            IF e = "ConnectionRefusedError"
                            THEN <<"Connection Refused">>
                            ELSE <<"An unexpected error occurred">>>>
                       \o Banner
         /\ exit' = Exited(1, e)
    /\ pc' = "done"
    /\ UNCHANGED <<argv, local>>

\* One turn of the loop that receives a frame: decode it when it is bytes and
\* print it; a frame that does not decode raises inside the outer try.
RecvFrame ==
    /\ argv.cmd = "job stream" /\ pc = "recv"
    /\ Len(local.received) < MaxFrames
    /\ \E log_message \in Frames :
         /\ local' = [local EXCEPT !.received = Append(@, log_message)]
         /\ IF log_message.bytes /\ ~log_message.utf8
            THEN /\ out' = out \o <<<<"An unexpected error occurred">>>> \o Banner
                 /\ exit' = Exited(1, "UnicodeDecodeError")
                 /\ pc' = "done"
            ELSE /\ out' = Append(out, <<"|", log_message.data>>)
                 /\ UNCHANGED <<exit, pc>>
    /\ UNCHANGED <<argv, requests>>

\* recv raises ConnectionClosedOK (a clean close) or ConnectionClosedError (a
\* protocol-error close): the loop prints and breaks, the banner follows and
\* connect_to_job_stream returns.
PeerCloses ==
    /\ argv.cmd = "job stream" /\ pc = "recv"
    /\ \E e \in {"ConnectionClosedOK", "ConnectionClosedError"} :
         /\ out' = out \o <<IF e = "ConnectionClosedOK"
                            THEN <<"Connection closed gracefully by the server.">>
                            ELSE <<"Connection closed unexpectedly">>>>
                       \o Banner
         /\ exit' = Exited(0, e)
    /\ pc' = "done"
    /\ UNCHANGED <<argv, local, requests>>

\* Ctrl+C while connecting or waiting for a frame: asyncio.run cancels the
\* coroutine (the banner is printed on the way out) and raises
\* KeyboardInterrupt, which stream_current_job catches.
Interrupt ==
    /\ argv.cmd = "job stream" /\ pc \in {"connect", "recv"}
    /\ out' = out \o (IF pc = "connect" THEN <<<<"Attempting to connect">>>> ELSE <<>>)
                  \o Banner \o <<<<"Client stopped by user (Ctrl+C)">>>>
    /\ exit' = Exited(0, "KeyboardInterrupt")
    /\ pc' = "done"
    /\ UNCHANGED <<argv, local, requests>>

NextStream == ConnectOk \/ ConnectFails \/ RecvFrame \/ PeerCloses \/ Interrupt

SpecStream == InitStream /\ [][NextStream]_vars

\* C4: job stream ends with a printed diagnostic and a non-zero status on
\* every transport failure (a failure to connect, a protocol-error
\* disconnect while receiving), and with status 0 only on a clean close or
\* an operator interruption.
C4_TransportFailureExitsNonZero ==
    (argv.cmd = "job stream" /\ pc = "done") =>
        LET failure == exit.why \in {"ConnectionRefusedError", "Exception",
                                     "ConnectionClosedError"}
            diagnosed == \E i \in 1..Len(out) :
                             out[i][1] \in {"Connection Refused",
                                            "An unexpected error occurred",
                                            "Connection closed unexpectedly"}
        IN  /\ failure => (diagnosed /\ exit.code # 0)
            /\ exit.code = 0 =>
                   exit.why \in {"ConnectionClosedOK", "KeyboardInterrupt"}

\* C11: in the job stream receive loop, once the connection is established,
\* every frame received before the peer closes is printed exactly once, in the
\* order received; when the peer closes the loop ends and no frame is received
\* or printed afterwards (every frame line precedes the close line); the
\* closing banner is printed exactly once on every way out of the loop and
\* never before.
C11_FramesPrintedOnceInOrder ==
    (argv.cmd = "job stream") =>
        LET printed == SelectSeq(out, LAMBDA m : m[1] = "|")
            closes  == {i \in 1..Len(out) :
                            out[i][1] \in {"Connection closed gracefully by the server.",
                                           "Connection closed unexpectedly"}}
            stopped == {i \in 1..Len(out) :
                            out[i] = <<"WebSocket client debugger stopped.">>}
        IN  /\ Len(printed) = Len(local.received)
            /\ \A i \in 1..Len(printed) :
                   printed[i] = <<"|", local.received[i].data>>
            /\ \A i \in 1..Len(out) :
                   out[i][1] = "|" => \A c \in closes \cup stopped : i < c
            /\ exit.why \in {"ConnectionClosedOK", "ConnectionClosedError"}
                   => (pc = "done" /\ Cardinality(closes) = 1)
            /\ Cardinality(stopped) = (IF pc = "done" THEN 1 ELSE 0)

(***************************************************************************)
(* submission list: submission.py list_submissions, status_icon            *)
(***************************************************************************)

\* Most folders under the Submissions collection in the model.
MaxFolders == 3

\* Largest --head drawn.
MaxHead == 2

\* status.lower(), on the status strings of the model's folders
Lower(status) ==
    CASE status = "Completed" -> "completed"
      [] status = "FAILED"    -> "failed"
      [] OTHER                -> status

\* status_icon(status)
status_icon(status) ==
    LET s == Lower(status)
    IN  CASE s = "submitted"  -> "hourglass"
          [] s = "processing" -> "arrows"
          [] s = "completed"  -> "check mark"
          [] s = "failed"     -> "cross mark"
          [] OTHER            -> "question mark"

\* An optional metadata field or option: <<>> when absent, else <<value>>.
Absent == <<>>
Present(v) == <<v>>
\* d.get(key, default)
GetOr(field, default) == IF field = Absent THEN default ELSE field[1]

\* Submission folders of the remote store, as list_submissions reads them.
ListedFolders ==
    { [_id |-> "f1", name |-> "sub-1", created |-> DateTime(600, 0),
       updated |-> DateTime(645, 0),
       meta |-> [creator_id |-> Present("u1"), job_id |-> Present("j1"),
                 status |-> Present("Completed"),
                 stages |-> <<[image_name |-> "rocker/r-ver", image_tag |-> "4.3"]>>]],
      [_id |-> "f2", name |-> "sub-2", created |-> DateTime(1200, 500000),
       updated |-> DateTime(87900, 500000),
       meta |-> [creator_id |-> Present("u2"), job_id |-> Present("j2"),
                 status |-> Present("FAILED"),
                 stages |-> <<[image_name |-> "stata", image_tag |-> "18"],
                              [image_name |-> "python", image_tag |-> "3.12"]>>]],
      [_id |-> "f3", name |-> "sub-3", created |-> DateTime(1800, 0),
       updated |-> DateTime(1800, 0),
       meta |-> [creator_id |-> Present("u2"), job_id |-> Absent,
                 status |-> Present("processing"), stages |-> <<>>]],
      [_id |-> "f4", name |-> "sub-4", created |-> DateTime(2400, 0),
       updated |-> DateTime(700, 0),
       meta |-> [creator_id |-> Absent, job_id |-> Present("j4"),
                 status |-> Absent, stages |-> <<>>]] }

\* The sort fields drawn for --sort: two timestamps of a folder.
SortKey(folder, sort) == IF sort = "updated" THEN folder.updated ELSE folder.created

\* GET folder with sort and sortdir: the folders of S in the order asked for
\* (1 ascending, -1 descending).
SortedListing(S, sort, sortDir) ==
    CHOOSE q \in [1..Cardinality(S) -> S] :
        /\ \A f \in S : \E i \in 1..Len(q) : q[i] = f
        /\ \A i, j \in 1..Len(q) :
               i < j => IF sortDir = 1
                        THEN Earlier(SortKey(q[i], sort), SortKey(q[j], sort))
                        ELSE Earlier(SortKey(q[j], sort), SortKey(q[i], sort))

\* gc.listResource(path, params, limit=head): every record when head is
\* None, the first `head` records otherwise.
ListResource(listing, head) ==
    IF head = Absent THEN listing
    ELSE SubSeq(listing, 1, IF head[1] < Len(listing) THEN head[1] ELSE Len(listing))

\* The two `continue`s of the loop over the folders.
SkippedFolder(folder, since, user, user_info) ==
    \/ SkippedBySince(folder.created, since)
    \/ user # Absent /\ GetOr(folder.meta.creator_id, "") # user_info[1]._id

\* ",".join(image_name:image_tag for each stage), "N/A" without stages
RECURSIVE JoinComma(_)
JoinComma(parts) ==
    IF parts = <<>> THEN ""
    ELSE IF Len(parts) = 1 THEN parts[1]
    ELSE parts[1] \o "," \o JoinComma(Tail(parts))
ImageOf(stages) ==
    IF stages = <<>> THEN "N/A"
    ELSE JoinComma([i \in 1..Len(stages) |->
                      stages[i].image_name \o ":" \o stages[i].image_tag])

\* users.get(creator_id, "Unknown") on the dict built from GET user
CreatorName(creator_id) ==
    IF \E u \in UserDir : u._id = creator_id
    THEN LET u == CHOOSE u \in UserDir : u._id = creator_id
         IN  u.name \o " (" \o u.login \o ")"
    ELSE "Unknown"

\* table.add_row(...) for one folder
SubmissionRow(folder) ==
    [name     |-> folder.name,
     job_id   |-> GetOr(folder.meta.job_id, "N/A"),
     image    |-> ImageOf(folder.meta.stages),
     creator  |-> CreatorName(GetOr(folder.meta.creator_id, "")),
     created  |-> folder.created.s,
     duration |-> duration(folder.created, folder.updated),
     status   |-> status_icon(GetOr(folder.meta.status, "unknown"))]

\* The folders the loop appends to `folders`, in listing order.
KeptFolders(listed, since, user, user_info) ==
    SelectSeq(listed, LAMBDA f : ~SkippedFolder(f, since, user, user_info))

InitList ==
    /\ argv \in [cmd : {"submission list"},
                 user : {Absent, Present("alice")},
                 sort : {"created", "updated"},
                 sortDir : {1, -1},
                 json : BOOLEAN,
                 since : {Absent, Present(DateTime(1200, 700000))},
                 head : {Absent} \cup {Present(n) : n \in 1..MaxHead}]
    /\ pc = "user"
    /\ local = [user_info |-> <<>>, since |-> <<>>, stored |-> <<>>,
                listed |-> <<>>, folders |-> <<>>, table |-> <<>>]
    /\ requests = <<>>
    /\ out = <<>>
    /\ exit = Running

\* Lines 207-215: resolve --user through _search_user, localize --since.
ListResolveUser ==
    /\ argv.cmd = "submission list" /\ pc = "user"
    /\ IF argv.user = Absent
       THEN /\ local' = [local EXCEPT !.since = LocalizeSince(argv.since)]
            /\ out' = IF argv.json THEN out ELSE Append(out, <<"Listing Submissions">>)
            /\ pc' = "collection"
            /\ UNCHANGED <<requests, exit>>
       ELSE /\ requests' = Append(requests, <<"GET", "/user", "text", argv.user[1]>>)
            /\ \E users \in UserResults :
                 LET r == _search_user(users, argv.user[1])
                 IN  IF r.abort
                     THEN /\ out' = out \o r.echo
                          /\ exit' = Exited(1, "Abort")
                          /\ pc' = "done"
                          /\ UNCHANGED local
                     ELSE /\ out' = out \o r.echo
                                    \o <<<<"Filtering by user ID", r.u[1]._id>>>>
                                    \o (IF argv.json THEN <<>>
                                        ELSE <<<<"Listing Submissions">>>>)
                          /\ local' = [local EXCEPT !.user_info = r.u,
                                         !.since = LocalizeSince(argv.since)]
                          /\ pc' = "collection"
                          /\ UNCHANGED exit
    /\ UNCHANGED argv

\* Lines 227-232: the user list, then _get_submission_collection, which
\* aborts when GET /collection?name=Submissions answers nothing.
ListGetCollection ==
    /\ argv.cmd = "submission list" /\ pc = "collection"
    /\ requests' = requests \o <<<<"GET", "user">>, <<"GET", "/collection", "Submissions">>>>
    /\ \E root_collection \in {<<>>, <<"c1">>} :
         IF root_collection = <<>>
         THEN /\ out' = Append(out, <<"No 'Submissions' collection found!">>)
              /\ exit' = Exited(1, "Abort")
              /\ pc' = "done"
         ELSE /\ pc' = "folders"
              /\ UNCHANGED <<out, exit>>
    /\ UNCHANGED <<argv, local>>

\* Lines 233-275: the sorted listing cut to --head by the request, the loop
\* that filters it and adds the rows, and the print.
ListFolders ==
    /\ argv.cmd = "submission list" /\ pc = "folders"
    /\ requests' = Append(requests,
                     <<"GET", "folder", [sort |-> argv.sort, sortdir |-> argv.sortDir,
                                         limit |-> argv.head]>>)
    /\ \E S \in {S \in SUBSET ListedFolders : Cardinality(S) <= MaxFolders} :
         LET stored  == SortedListing(S, argv.sort, argv.sortDir)
             listed  == ListResource(stored, argv.head)
             folders == KeptFolders(listed, local.since, argv.user, local.user_info)
             table   == [i \in 1..Len(folders) |-> SubmissionRow(folders[i])]
         IN  /\ local' = [local EXCEPT !.stored = stored, !.listed = listed,
                            !.folders = folders, !.table = table]
             /\ out' = IF argv.json
                       THEN Append(out, <<"json", folders>>)
                       ELSE Append(out, <<"table", table>>)
    /\ pc' = "done"
    /\ exit' = Exited(0, "return")
    /\ UNCHANGED argv

NextList == ListResolveUser \/ ListGetCollection \/ ListFolders

SpecList == InitList /\ [][NextList]_vars

\* C9: submission list shows a folder exactly when it is not older than
\* `since` and its creator_id is the resolved user's id; with --head N it
\* shows the first N, in the requested order, of the folders that pass, and
\* fewer than N only when fewer than N pass.
C9_HeadOfFiltered ==
    (argv.cmd = "submission list" /\ pc = "done" /\ exit.code = 0) =>
        LET passing == SelectSeq(local.stored,
                         LAMBDA f : ~SkippedFolder(f, local.since, argv.user,
                                                   local.user_info))
            shown   == out[Len(out)][2]
            want    == IF argv.head = Absent \/ Len(passing) <= argv.head[1]
                       THEN Len(passing) ELSE argv.head[1]
        IN  /\ Len(shown) = want
            /\ \A i \in 1..Len(shown) :
                   IF argv.json THEN shown[i]._id = passing[i]._id
                   ELSE shown[i].name = passing[i].name

(***************************************************************************)
(* The artifact registry: submission.py FileSpec, SubmissionFiles,         *)
(* SubmissionFile                                                          *)
(***************************************************************************)

FileSpec(cli_name, display_name, field_name, api_type) ==
    [cli_name |-> cli_name, display_name |-> display_name,
     field_name |-> field_name, api_type |-> api_type]

REPLPACK == FileSpec("ReplPack", "Replicated Package", "replpack_file_id", "replicated_package")
STDOUT == FileSpec("stdout", "Run output log", "stdout_file_id", "stdout")
STDERR == FileSpec("stderr", "Run error log", "stderr_file_id", "stderr")
TRO == FileSpec("tro", "TRO Declaration", "tro_file_id", "tro_declaration")
TSR == FileSpec("tsr", "Trusted Timestamp", "tsr_file_id", "tro_timestamp")
\* A plausible slip: the signature spec registered under a cli name that the
\* SubmissionFile enumeration does not have.
SIGAsSignature == FileSpec("signature", "TRS Signature", "sig_file_id", "tro_signature")

SIG == FileSpec("sig", "TRS Signature", "sig_file_id", "tro_signature")

\* SubmissionFiles.all()
SubmissionFilesAll == <<REPLPACK, STDOUT, STDERR, TRO, TSR, SIG>>

\* {key: spec for spec in cls.all()}, given each spec's key in the order of
\* all(): a later spec replaces an earlier one with the same key.
DictOf(keys) ==
    [k \in {keys[i] : i \in 1..Len(keys)} |->
        LET last == CHOOSE i \in 1..Len(keys) :
                        /\ keys[i] = k
                        /\ \A j \in 1..Len(keys) : keys[j] = k => j <= i
        IN  SubmissionFilesAll[last]]

\* SubmissionFiles.by_cli_name()
by_cli_name ==
    DictOf([i \in 1..Len(SubmissionFilesAll) |-> SubmissionFilesAll[i].cli_name])

\* SubmissionFiles.by_api_type()
by_api_type ==
    DictOf([i \in 1..Len(SubmissionFilesAll) |-> SubmissionFilesAll[i].api_type])

\* The values of the SubmissionFile enum.
SubmissionFile == {"all", "ReplPack", "stdout", "stderr", "tro", "tsr", "sig"}

(***************************************************************************)
(* submission get: submission.py get_submission                            *)
(***************************************************************************)

\* Longest --download list drawn.
MaxDownload == 2

\* The submission argument, as its characters: empty, without a hyphen,
\* with one inside, and a lone hyphen.
Identifiers == {<<>>, <<"j", "1">>, <<"s", "-", "1">>, <<"-">>}

\* "-" in submission
RECURSIVE HasHyphen(_)
HasHyphen(submission) ==
    IF submission = <<>> THEN FALSE
    ELSE IF Head(submission) = "-" THEN TRUE
    ELSE HasHyphen(Tail(submission))

\* A plausible slip: the two branches exchanged.
FolderParamsSwapped(submission, parentId) ==
    IF HasHyphen(submission)
    THEN [parentType |-> "collection", parentId |-> parentId,
          name |-> Absent, jobId |-> Present(submission)]
    ELSE [parentType |-> "collection", parentId |-> parentId,
          name |-> Present(submission), jobId |-> Absent]

\* params of GET /folder (lines 304-311); a key not set is Absent.
FolderParams(submission, parentId) ==
    IF HasHyphen(submission)
    THEN [parentType |-> "collection", parentId |-> parentId,
          name |-> Present(submission), jobId |-> Absent]
    ELSE [parentType |-> "collection", parentId |-> parentId,
          name |-> Absent, jobId |-> Present(submission)]

\* The six <artifact>_file_id fields of a folder's metadata: the fields of
\* `have` hold a file id, the others are `missing` (Absent, or Present("")).
FileFields(have, missing) ==
    [f \in {SubmissionFilesAll[i].field_name : i \in 1..Len(SubmissionFilesAll)} |->
        IF f \in have THEN Present("file:" \o f) ELSE missing]

\* The metadata drawn for the file-id fields.
FileFieldChoices ==
    {FileFields(have, missing) :
        have \in {{}, {"replpack_file_id", "stderr_file_id", "tsr_file_id"},
                  {"stdout_file_id", "tro_file_id", "sig_file_id"},
                  {"replpack_file_id", "stdout_file_id", "stderr_file_id",
                   "tro_file_id", "tsr_file_id", "sig_file_id"}},
        missing \in {Absent, Present("")}}

\* A submission folder as get_submission reads it.
Folder(id, name, job_id, creator_id, files) ==
    [_id |-> id, name |-> name,
     created |-> DateTime(600, 0), updated |-> DateTime(645, 0),
     meta |-> [status |-> Present("completed"),
               stages |-> <<[image_name |-> "rocker/r-ver", image_tag |-> "4.3",
                             main_file |-> "main.R"]>>,
               job_id |-> job_id, creator_id |-> creator_id] @@ files]

\* GET /folder: nothing, one folder that matches the parameter sent, or two
\* of them.  A folder found by jobId carries that job id; a folder found by
\* name may have no job_id in its metadata.
FolderAnswers(params) ==
    LET matches ==
            IF params.name # Absent
            THEN {Folder("f1", params.name[1], job_id, creator_id, files) :
                    job_id \in {Absent, Present(<<"j", "9">>)},
                    creator_id \in {Absent, Present("u1")},
                    files \in FileFieldChoices}
            ELSE {Folder("f1", <<"s", "-", "9">>, params.jobId, creator_id, files) :
                    creator_id \in {Absent, Present("u1")},
                    files \in FileFieldChoices}
        other == Folder("f2", <<"o", "-", "2">>, Present(<<"j", "2">>), Absent,
                        FileFields({}, Absent))
        full  == FileFields({"replpack_file_id", "stdout_file_id", "stderr_file_id",
                             "tro_file_id", "tsr_file_id", "sig_file_id"}, Absent)
    IN  {<<>>} \cup {<<f>> : f \in matches}
        \cup {<<f, other>> : f \in {g \in matches : g.meta.creator_id = Absent
                                                    /\ g.meta.job_id # Absent
                                                    /\ g.meta @@ full = g.meta}}

\* GET /job/{id}: the job, with its log lines (text and trailing whitespace).
WorkflowJobAnswers ==
    {[log |-> <<>>],
     [log |-> <<[text |-> "pulling image", space |-> "\n"],
                [text |-> "done", space |-> ""]>>]}

\* line.strip()
Strip(line) == line.text

\* An item of the folder: its metadata `type` tag may be absent.
Item(id, name, size, type) == [_id |-> id, name |-> name, size |-> size, type |-> type]

\* GET /item?folderId=: the child items listed.
ItemAnswers ==
    { <<>>,
      [i \in 1..Len(SubmissionFilesAll) |->
          Item("i" \o ToString(i), SubmissionFilesAll[i].cli_name \o ".dat",
               Size(FALSE, <<1, 440, 864>>), Present(SubmissionFilesAll[i].api_type))],
      << Item("i7", "notes.txt", Size(FALSE, <<5>>), Absent),
         Item("i8", "raw.bin", Size(FALSE, <<1, 0>>), Present("dataset")),
         Item("i9", "out.log", Size(FALSE, <<>>), Present("stdout")),
         Item("i10", "out2.log", Size(FALSE, <<1023>>), Present("stdout")) >>,
      << Item("i11", "huge.zip", Size(FALSE, <<1, 0, 0, 0, 0, 0, 0>>),
              Present("replicated_package")) >> }

\* file_id_map (lines 378-382): display name -> file id, for the fields of
\* the metadata that hold a non-empty id.
FileIdMap(meta) ==
    LET all  == SubmissionFilesAll
        have == {i \in 1..Len(all) :
                    /\ meta[all[i].field_name] # Absent
                    /\ meta[all[i].field_name][1] # ""}
    IN  [d \in {all[i].display_name : i \in have} |->
            LET i == CHOOSE i \in have : all[i].display_name = d
            IN  meta[all[i].field_name][1]]

\* The loop over the child items (lines 390-409): the lines of file_list,
\* or the exception convert_size raises on the first item it cannot render.
RECURSIVE FileList(_)
FileList(items) ==
    IF items = <<>> THEN [raises |-> "", lines |-> <<>>]
    ELSE LET item == items[1]
             known == item.type # Absent /\ item.type[1] \in DOMAIN by_api_type
         IN  IF ~known THEN FileList(Tail(items))
             ELSE LET size == convert_size(item.size)
                      rest == FileList(Tail(items))
                  IN  IF size.raises # "" THEN [raises |-> size.raises, lines |-> <<>>]
                      ELSE IF rest.raises # "" THEN rest
                      ELSE [raises |-> "",
                            lines |-> <<<<"file", by_api_type[item.type[1]].display_name,
                                          item.name, size.text, item._id>>>>
                                      \o rest.lines]

\* A plausible slip: the wildcard is looked for in the first position only.
HasAllFirstOnly(download) == download # <<>> /\ download[1] = "all"

\* any(fetch.value == "all" for fetch in download)
HasAll(download) == \E i \in 1..Len(download) : download[i] = "all"

\* download_specs (lines 417-430) and the "Unknown file type" lines.
DownloadSpecs(download) ==
    IF HasAll(download)
    THEN [specs   |-> [i \in 1..Len(SubmissionFilesAll) |->
                          by_cli_name[SubmissionFilesAll[i].cli_name]],
          unknown |-> <<>>]
    ELSE LET known == SelectSeq(download, LAMBDA v : v \in DOMAIN by_cli_name)
             unk   == SelectSeq(download, LAMBDA v : v \notin DOMAIN by_cli_name)
         IN  [specs   |-> [i \in 1..Len(known) |-> by_cli_name[known[i]]],
              unknown |-> [i \in 1..Len(unk) |-> <<"Unknown file type", unk[i]>>]]

InitGet ==
    /\ argv \in [cmd : {"submission get"},
                 submission : Identifiers,
                 download : SeqUpTo(SubmissionFile, MaxDownload),
                 json : BOOLEAN]
    /\ pc = "collection"
    /\ local = [folders |-> <<>>, job |-> <<>>, file_id_map |-> <<>>,
                download_specs |-> <<>>, next |-> 1]
    /\ requests = <<>>
    /\ out = <<>>
    /\ exit = Running

\* Lines 300-303: the greeting, then _get_submission_collection.
GetCollection ==
    /\ argv.cmd = "submission get" /\ pc = "collection"
    /\ requests' = Append(requests, <<"GET", "/collection", "Submissions">>)
    /\ LET greeted == IF argv.json THEN out
                      ELSE Append(out, <<"Getting a specific submission...">>)
       IN  \E root_collection \in {<<>>, <<"c1">>} :
             IF root_collection = <<>>
             THEN /\ out' = Append(greeted, <<"No 'Submissions' collection found!">>)
                  /\ exit' = Exited(1, "Abort")
                  /\ pc' = "done"
             ELSE /\ out' = greeted
                  /\ pc' = "folder"
                  /\ UNCHANGED exit
    /\ UNCHANGED <<argv, local>>

\* Lines 304-314: the folder query by name or by job id.
QueryFolder ==
    /\ argv.cmd = "submission get" /\ pc = "folder"
    /\ LET params == FolderParams(argv.submission, "c1")
       IN  /\ requests' = Append(requests, <<"GET", "/folder", params>>)
           /\ \E folders \in FolderAnswers(params) :
                local' = [local EXCEPT !.folders = folders]
    /\ pc' = "job"
    /\ UNCHANGED <<argv, out, exit>>

\* Lines 315-325: the job of the first match is fetched (its metadata must
\* name one), then the not-found exit, then the JSON dump.
FetchJob ==
    /\ argv.cmd = "submission get" /\ pc = "job"
    /\ LET folders == local.folders
       IN  IF folders = <<>>
           THEN /\ out' = Append(out, <<"Error: Submission not found", argv.submission>>)
                /\ exit' = Exited(1, "Exit")
                /\ pc' = "done"
                /\ UNCHANGED <<local, requests>>
           ELSE LET folder == folders[1]
                IN  IF folder.meta.job_id = Absent
                    THEN /\ exit' = Exited(1, "KeyError")
                         /\ pc' = "done"
                         /\ UNCHANGED <<local, requests, out>>
                    ELSE /\ requests' = Append(requests,
                                          <<"GET", "/job", folder.meta.job_id[1]>>)
                         /\ \E job \in WorkflowJobAnswers :
                              local' = [local EXCEPT !.job = <<job>>]
                         /\ IF argv.json
                            THEN /\ out' = Append(out, <<"json", folder>>)
                                 /\ exit' = Exited(0, "return")
                                 /\ pc' = "done"
                            ELSE /\ pc' = "summary"
                                 /\ UNCHANGED <<out, exit>>
    /\ UNCHANGED argv

\* Lines 327-382: the creator lookup, the summary panel, the job's log and
\* the file-id map.
ShowSummary ==
    /\ argv.cmd = "submission get" /\ pc = "summary"
    /\ LET folder  == local.folders[1]
           meta    == folder.meta
           creator == meta.creator_id # Absent /\ meta.creator_id[1] # ""
           job     == local.job[1]
       IN  /\ requests' = IF creator
                          THEN Append(requests, <<"GET", "/user", meta.creator_id[1]>>)
                          ELSE requests
           /\ out' = out
                \o <<<<"summary",
                       [status  |-> GetOr(meta.status, "N/A"),
                        stages  |-> meta.stages,
                        created |-> folder.created.s,
                        updated |-> folder.updated.s,
                        creator |-> IF creator THEN CreatorName(meta.creator_id[1])
                                    ELSE ""]>>>>
                \o <<<<"Main workflow job logs:">>>>
                \o [i \in 1..Len(job.log) |-> <<"log", Strip(job.log[i])>>]
                \o <<<<"Files Available for Download:">>>>
           /\ local' = [local EXCEPT !.file_id_map = FileIdMap(meta)]
    /\ pc' = "items"
    /\ UNCHANGED <<argv, exit>>

\* Lines 384-411: the child items, matched by type tag and listed with
\* their size.
ListItems ==
    /\ argv.cmd = "submission get" /\ pc = "items"
    /\ requests' = Append(requests, <<"GET", "/item", local.folders[1]._id>>)
    /\ \E items \in ItemAnswers :
         LET file_list == FileList(items)
         IN  IF file_list.raises # ""
             THEN /\ exit' = Exited(1, file_list.raises)
                  /\ pc' = "done"
                  /\ UNCHANGED out
             ELSE /\ out' = out \o file_list.lines
                  /\ pc' = "select"
                  /\ UNCHANGED exit
    /\ UNCHANGED <<argv, local>>

\* Lines 413-430: the slots to download.
SelectDownloads ==
    /\ argv.cmd = "submission get" /\ pc = "select"
    /\ LET sel == DownloadSpecs(argv.download)
       IN  /\ local' = [local EXCEPT !.download_specs = sel.specs, !.next = 1]
           /\ out' = out \o sel.unknown
           /\ IF sel.specs = <<>>
              THEN pc' = "done" /\ exit' = Exited(0, "return")
              ELSE pc' = "download" /\ UNCHANGED exit
    /\ UNCHANGED <<argv, requests>>

\* A plausible slip: `break` where the loop has `continue`, so that a slot
\* that is not available ends the downloads.
DownloadStepBreaks ==
    /\ argv.cmd = "submission get" /\ pc = "download"
    /\ LET spec == local.download_specs[local.next]
           have == spec.display_name \in DOMAIN local.file_id_map
                   /\ local.file_id_map[spec.display_name] # ""
       IN  IF ~have
           THEN /\ out' = Append(out, <<"not available", spec.display_name>>)
                /\ pc' = "done" /\ exit' = Exited(0, "return")
                /\ UNCHANGED requests
           ELSE LET file_id == local.file_id_map[spec.display_name]
                IN  /\ out' = Append(out, <<"Downloading", spec.display_name>>)
                    /\ requests' = requests \o <<<<"GET", "/file", file_id>>,
                                                 <<"downloadFile", file_id>>>>
                    /\ IF local.next = Len(local.download_specs)
                       THEN pc' = "done" /\ exit' = Exited(0, "return")
                       ELSE UNCHANGED <<pc, exit>>
    /\ local' = [local EXCEPT !.next = @ + 1]
    /\ UNCHANGED argv

\* Lines 432-442: one turn of the download loop.
DownloadStep ==
    /\ argv.cmd = "submission get" /\ pc = "download"
    /\ LET spec == local.download_specs[local.next]
           have == spec.display_name \in DOMAIN local.file_id_map
                   /\ local.file_id_map[spec.display_name] # ""
       IN  IF ~have
           THEN /\ out' = Append(out, <<"not available", spec.display_name>>)
                /\ UNCHANGED requests
           ELSE LET file_id == local.file_id_map[spec.display_name]
                IN  /\ out' = Append(out, <<"Downloading", spec.display_name>>)
                    /\ requests' = requests \o <<<<"GET", "/file", file_id>>,
                                                 <<"downloadFile", file_id>>>>
    /\ local' = [local EXCEPT !.next = @ + 1]
    /\ IF local.next = Len(local.download_specs)
       THEN pc' = "done" /\ exit' = Exited(0, "return")
       ELSE UNCHANGED <<pc, exit>>
    /\ UNCHANGED argv

NextGet ==
    \/ GetCollection \/ QueryFolder \/ FetchJob \/ ShowSummary
    \/ ListItems \/ SelectDownloads \/ DownloadStep

SpecGet == InitGet /\ [][NextGet]_vars

\* C2: the folder query of submission get carries exactly one of `name` and
\* `jobId`: `name`, set to the identifier, when the identifier contains a
\* hyphen, and `jobId`, set to the identifier, when it contains none.
C2_LookupParameter ==
    (argv.cmd = "submission get" /\ Len(requests) >= 2) =>
        LET params == requests[2][3]
            hyphen == \E i \in 1..Len(argv.submission) : argv.submission[i] = "-"
        IN  /\ requests[2][2] = "/folder"
            /\ (params.name = Absent) # (params.jobId = Absent)
            /\ hyphen => params.name = Present(argv.submission)
            /\ ~hyphen => params.jobId = Present(argv.submission)

\* C2's case: an identifier whose hyphen is not its first character, looked up
\* by name.
C2_Witness ==
    /\ argv.cmd = "submission get" /\ Len(requests) >= 2
    /\ Len(argv.submission) > 1 /\ argv.submission[1] # "-"
    /\ requests[2][3].name = Present(argv.submission)

\* C3: in table mode with the folder found, a requested slot whose file-id
\* field is absent or empty gets a "not available" line and is skipped, every
\* other requested slot is downloaded, later ones included, and which slots
\* are downloaded is decided by the folder's metadata fields alone.
C3_UnavailableSlotSkipped ==
    (argv.cmd = "submission get" /\ pc = "done" /\ exit.why = "return" /\ ~argv.json) =>
        LET meta     == local.folders[1].meta
            specs    == local.download_specs
            avail(s) == meta[s.field_name] # Absent /\ meta[s.field_name] # Present("")
            attempts == SelectSeq(out, LAMBDA m : m[1] \in {"not available", "Downloading"})
            fetched  == SelectSeq(requests, LAMBDA r : r[1] = "downloadFile")
            wanted   == SelectSeq(specs, avail)
        IN  /\ Len(attempts) = Len(specs)
            /\ \A i \in 1..Len(specs) :
                   attempts[i] = <<IF avail(specs[i]) THEN "Downloading"
                                   ELSE "not available", specs[i].display_name>>
            /\ fetched = [i \in 1..Len(wanted) |->
                            <<"downloadFile", meta[wanted[i].field_name][1]>>]

\* C3's case: a slot without a file id is followed by a slot with one, which
\* is downloaded although no child item of its type was listed.
C3_Witness ==
    /\ argv.cmd = "submission get" /\ pc = "done" /\ exit.why = "return" /\ ~argv.json
    /\ Len(local.download_specs) >= 2
    /\ LET meta == local.folders[1].meta
           s1   == local.download_specs[1]
           s2   == local.download_specs[2]
       IN  /\ meta[s1.field_name] = Present("")
           /\ \E i \in 1..Len(out) : out[i] = <<"not available", s1.display_name>>
           /\ \E i \in 1..Len(requests) :
                  requests[i] = <<"downloadFile", meta[s2.field_name][1]>>
           /\ ~\E i \in 1..Len(out) : out[i][1] = "file"

\* C6: in JSON mode submission get emits the first match's raw folder and
\* stops: it succeeds whatever the folder's metadata holds and makes no
\* creator lookup, item listing or file download; with no match it exits
\* with status 1 and makes none of those requests either.
C6_JsonDumpsFirstMatch ==
    (argv.cmd = "submission get" /\ pc = "done" /\ Len(requests) >= 2) =>
        LET later == \E i \in 1..Len(requests) :
                        \/ requests[i][2] \in {"/user", "/item", "/file"}
                        \/ requests[i][1] = "downloadFile"
        IN  /\ (argv.json /\ local.folders # <<>>) =>
                   /\ exit.code = 0
                   /\ out = <<<<"json", local.folders[1]>>>>
                   /\ ~later
            /\ local.folders = <<>> => (exit.code = 1 /\ ~later)

\* C10: with `all` anywhere in the download list the slots attempted are the
\* six registry slots, once each and in registry order; without it they are
\* the requested slots in request order, one attempt per occurrence.
C10_SlotsAttempted ==
    (argv.cmd = "submission get" /\ pc = "done" /\ exit.why = "return" /\ ~argv.json) =>
        LET shown == [ReplPack |-> "Replicated Package", stdout |-> "Run output log",
                      stderr |-> "Run error log", tro |-> "TRO Declaration",
                      tsr |-> "Trusted Timestamp", sig |-> "TRS Signature"]
            attempts == SelectSeq(out, LAMBDA m : m[1] \in {"not available", "Downloading"})
            slots    == [i \in 1..Len(attempts) |-> attempts[i][2]]
        IN  IF \E i \in 1..Len(argv.download) : argv.download[i] = "all"
            THEN slots = <<"Replicated Package", "Run output log", "Run error log",
                           "TRO Declaration", "Trusted Timestamp", "TRS Signature">>
            ELSE slots = [i \in 1..Len(argv.download) |-> shown[argv.download[i]]]

\* C10's case: the wildcard comes second, after a named slot, and all six
\* slots are attempted.
C10_Witness ==
    /\ argv.cmd = "submission get" /\ pc = "done" /\ exit.why = "return" /\ ~argv.json
    /\ Len(argv.download) = 2
    /\ argv.download[1] = "tsr" /\ argv.download[2] = "all"
    /\ Len(SelectSeq(out, LAMBDA m : m[1] \in {"not available", "Downloading"})) = 6

\* C12: the artifact registry is consistent with the CLI slot enumeration. It
\* holds exactly six specs whose cli names, display names, metadata field
\* names and API type tags are each pairwise distinct, so that the
\* by-cli-name and by-api-type lookups have six entries each; the registry's
\* cli names are the SubmissionFile values other than "all"; hence every slot
\* of a download request resolves to its registry spec and no run of
\* `submission get` prints "Unknown file type".
C12_RegistryMatchesEnum ==
    LET n == Len(SubmissionFilesAll)
        Distinct(field) ==
            \A i, j \in 1..n :
                SubmissionFilesAll[i][field] = SubmissionFilesAll[j][field] => i = j
    IN  /\ n = 6
        /\ \A field \in {"cli_name", "display_name", "field_name", "api_type"} :
               Distinct(field)
        /\ Cardinality(DOMAIN by_cli_name) = 6
        /\ Cardinality(DOMAIN by_api_type) = 6
        /\ \A i \in 1..n :
               /\ by_cli_name[SubmissionFilesAll[i].cli_name] = SubmissionFilesAll[i]
               /\ by_api_type[SubmissionFilesAll[i].api_type] = SubmissionFilesAll[i]
        /\ {SubmissionFilesAll[i].cli_name : i \in 1..n} = SubmissionFile \ {"all"}
        /\ (argv.cmd = "submission get") =>
               /\ \A i \in 1..Len(argv.download) :
                      argv.download[i] # "all" =>
                          /\ argv.download[i] \in DOMAIN by_cli_name
                          /\ by_cli_name[argv.download[i]].cli_name = argv.download[i]
               /\ DownloadSpecs(argv.download).unknown = <<>>
               /\ \A i \in 1..Len(out) : out[i][1] # "Unknown file type"
               /\ pc \in {"download", "done"} /\ exit.why \in {"running", "return"}
                  /\ ~argv.json /\ local.folders # <<>> /\ ~HasAll(argv.download)
                      => Len(local.download_specs) = Len(argv.download)

\* A run that asked for two named slots, resolved both and returned.
C12_Witness ==
    /\ argv.cmd = "submission get" /\ pc = "done" /\ exit.why = "return" /\ ~argv.json
    /\ argv.download = <<"sig", "ReplPack">>
    /\ Len(local.download_specs) = 2
    /\ local.download_specs[1] = SIG /\ local.download_specs[2] = REPLPACK
    /\ \A i \in 1..Len(out) : out[i][1] # "Unknown file type"

Spec == SpecUser
====
